---- MODULE Spec2Model ----
(***************************************************************************)
(* Multi-tenant subscription lifecycle and dunning engine of pay-flow-pro. *)
(*                                                                         *)
(* Four state machines share this module, one specification each:          *)
(*   SpecTenant    _get_user_account_id / _create_default_account_for_user *)
(*   SpecFactory   get_or_create_subscription_atomic and its callers       *)
(*   SpecLifecycle start-trial, upgrade, cancel, webhooks, conversion sweep*)
(*   SpecDunning   process_dunning_for_all_tenants                         *)
(* The database is PostgreSQL at READ COMMITTED: a statement sees what was *)
(* committed before it ran, and a transaction publishes its rows at commit.*)
(***************************************************************************)
EXTENDS Integers, Sequences, FiniteSets, TLC

\* SQL NULL / Python None in a nullable column or variable (ids and times are >= 0)
Null == -1

(***************************************************************************)
(* User identities are short byte strings (the auth subject, user.sub).    *)
(***************************************************************************)
UserA == <<117, 49>>      \* "u1"
UserB == <<85, 95, 50>>   \* "U_2"
UserC == <<117, 51>>      \* "u3"

RECURSIVE SeqToSet(_)
SeqToSet(s) == IF s = <<>> THEN {} ELSE {Head(s)} \cup SeqToSet(Tail(s))

(***************************************************************************)
(* zlib.crc32(user_id.encode('utf-8')) & 0x7FFFFFFF, bit by bit.           *)
(***************************************************************************)
\* A 32-bit register is a sequence of 32 bits, least significant first.
RECURSIVE BitsOf(_, _)
BitsOf(v, n) == IF n = 0 THEN <<>> ELSE <<v % 2>> \o BitsOf(v \div 2, n - 1)

RECURSIVE ValueOf(_)
ValueOf(bits) == IF bits = <<>> THEN 0 ELSE Head(bits) + 2 * ValueOf(Tail(bits))

XorBits(a, b) == [i \in 1..Len(a) |-> (a[i] + b[i]) % 2]

\* 0xEDB88320, the reflected CRC-32 polynomial: high half 0xEDB8, low half 0x8320
CrcPoly == BitsOf(33568, 16) \o BitsOf(60856, 16)

AllOnes == [i \in 1..32 |-> 1]

ShiftRight(c) == Tail(c) \o <<0>>

RECURSIVE CrcShift(_, _)
CrcShift(c, k) ==
    IF k = 0 THEN c
    ELSE CrcShift(IF c[1] = 1 THEN XorBits(ShiftRight(c), CrcPoly) ELSE ShiftRight(c),
                  k - 1)

RECURSIVE CrcBytes(_, _)
CrcBytes(c, bytes) ==
    IF bytes = <<>> THEN c
    ELSE CrcBytes(CrcShift(XorBits(c, BitsOf(Head(bytes), 32)), 8), Tail(bytes))

Crc32(bytes) == XorBits(CrcBytes(AllOnes, bytes), AllOnes)

\* lock_id = zlib.crc32(self.user_id.encode('utf-8')) & 0x7FFFFFFF
LockId(user_id) == ValueOf(SubSeq(Crc32(user_id), 1, 31))

(***************************************************************************)
(* Bounds.                                                                 *)
(***************************************************************************)
NumTenantReqs == 3      \* concurrent calls of _get_user_account_id
NumFactoryReqs == 3     \* concurrent requests that may create a subscription

(***************************************************************************)
(* State.                                                                  *)
(*   accounts        rows of table accounts            [id, slug]          *)
(*   user_accounts   rows of table user_accounts                           *)
(*                   [id, user_id, account_id, role, created_at]           *)
(*   uuid_seq        the uuid4() values handed out so far                  *)
(*   clock           the database's transaction-start clock                *)
(*   treq            one record per call of _get_user_account_id           *)
(*   user_subscriptions  rows of table user_subscriptions                  *)
(*   stripe_seq      the ids the payment processor has minted so far       *)
(*   now             the wall clock, in days                               *)
(*   freq            one record per request that may create a subscription *)
(*   insert_log      history: which request inserted which row, and        *)
(*                   whether it held the advisory lock at that moment      *)
(*   stripe_subs     the recurring subscriptions held by the payment       *)
(*                   processor                                             *)
(*   proc            one record per sweep run, upgrade or cancel request   *)
(*   ticks, events   how often the clock advanced and how many webhook     *)
(*                   events the processor delivered                        *)
(*   dunning_rules, invoices, dunning_history   rows of these tables       *)
(*   drun            one record per run of the dunning engine              *)
(*   dunning_log     history: what each run did with each (invoice, rule)  *)
(***************************************************************************)
VARIABLES accounts, user_accounts, uuid_seq, clock, treq,
          user_subscriptions, stripe_seq, now, freq, insert_log,
          stripe_subs, proc, ticks, events,
          dunning_rules, invoices, dunning_history, drun, dunning_log

tenantVars == <<accounts, user_accounts, uuid_seq, clock, treq>>
factoryVars == <<user_subscriptions, stripe_seq, now, freq, insert_log>>
lifeVars == <<stripe_subs, proc, ticks, events>>
dunVars == <<dunning_rules, invoices, dunning_history, drun, dunning_log>>

vars == <<accounts, user_accounts, uuid_seq, clock, treq,
          user_subscriptions, stripe_seq, now, freq, insert_log,
          stripe_subs, proc, ticks, events,
          dunning_rules, invoices, dunning_history, drun, dunning_log>>

\* The parts of the state a specification does not use stay empty.
LifecycleUnused ==
    stripe_subs = {} /\ proc = <<>> /\ ticks = 0 /\ events = 0
DunningUnused ==
    /\ dunning_rules = {} /\ invoices = {} /\ dunning_history = {}
    /\ drun = <<>> /\ dunning_log = {}

(***************************************************************************)
(* Tenant Resolver (repository.py, _get_user_account_id).                  *)
(***************************************************************************)
TenantUsers == {UserA, UserB}
TenantReqs == 1..NumTenantReqs

AdminRole == "admin"     \* UserRole.ADMIN.value

\* str.lower() on one byte, then re.sub(r'[^a-z0-9-]', '-', ...)
LowerByte(b) == IF b >= 65 /\ b <= 90 THEN b + 32 ELSE b
SlugByte(b) ==
    LET c == LowerByte(b)
    IN  IF (c >= 97 /\ c <= 122) \/ (c >= 48 /\ c <= 57) \/ c = 45 THEN c ELSE 45
\* base_slug = re.sub(r'[^a-z0-9-]', '-', self.user_id.lower())[:12]
BaseSlug(user_id) ==
    LET n == IF Len(user_id) < 12 THEN Len(user_id) ELSE 12
    IN  [i \in 1..n |-> SlugByte(user_id[i])]
\* account_slug = f"{base_slug}-{str(account_id)[:8]}"
AccountSlug(user_id, account_id) == <<BaseSlug(user_id), account_id>>

\* SELECT ua.account_id FROM user_accounts ua WHERE ua.user_id = $1
\* ORDER BY ua.created_at ASC LIMIT 1   (Null when there is no row)
Memberships(ua, user_id) == {m \in ua : m.user_id = user_id}
FirstAccountOf(ua, user_id) ==
    LET ms == Memberships(ua, user_id)
    IN  IF ms = {} THEN Null
        ELSE (CHOOSE m \in ms : \A o \in ms : m.created_at <= o.created_at).account_id

\* The uniqueness constraints an insert of (account, membership) can violate:
\* accounts.id, accounts.slug, user_accounts.id and (user_id, account_id).
AccountInsertConflicts(acc, ua, account, membership) ==
    \/ \E a \in acc : a.id = account.id \/ a.slug = account.slug
    \/ \E m \in ua : \/ m.id = membership.id
                     \/ (m.user_id = membership.user_id
                         /\ m.account_id = membership.account_id)

TenantInit ==
    /\ accounts = {}
    /\ user_accounts = {}
    /\ uuid_seq = 0
    /\ clock = 0
    /\ treq \in [TenantReqs -> {[pc |-> "start", user_id |-> u, account_id |-> Null,
                                 created_at |-> 0] : u \in TenantUsers}]
    /\ user_subscriptions = {}
    /\ stripe_seq = 0
    /\ now = 0
    /\ freq = <<>>
    /\ insert_log = {}
    /\ LifecycleUnused
    /\ DunningUnused

\* _get_user_account_id, lines 33-44: the first query; a hit is cached and returned.
GetUserAccountId(r) ==
    /\ treq[r].pc = "start"
    /\ LET found == FirstAccountOf(user_accounts, treq[r].user_id)
       IN  treq' = [treq EXCEPT ![r] =
                IF found # Null
                THEN [@ EXCEPT !.pc = "returned", !.account_id = found]
                ELSE [@ EXCEPT !.pc = "create"]]
    /\ UNCHANGED <<accounts, user_accounts, uuid_seq, clock>>
    /\ UNCHANGED <<factoryVars, lifeVars, dunVars>>

\* _create_default_account_for_user, lines 57-72: open the transaction (its
\* CURRENT_TIMESTAMP is fixed here) and re-check for a concurrent membership.
CreateDefaultRecheck(r) ==
    /\ treq[r].pc = "create"
    /\ clock' = clock + 1
    /\ LET found == FirstAccountOf(user_accounts, treq[r].user_id)
       IN  treq' = [treq EXCEPT ![r] =
                IF found # Null
                THEN [@ EXCEPT !.pc = "returned", !.account_id = found]
                ELSE [@ EXCEPT !.pc = "insert", !.created_at = clock + 1]]
    /\ UNCHANGED <<accounts, user_accounts, uuid_seq>>
    /\ UNCHANGED <<factoryVars, lifeVars, dunVars>>

\* lines 74-100 and 101-117: two uuid4() values, both inserts and the commit;
\* on a uniqueness violation the fallback query, on any other failure a raise.
CreateDefaultInsert(r) ==
    /\ treq[r].pc = "insert"
    /\ uuid_seq' = uuid_seq + 2
    /\ UNCHANGED clock
    /\ UNCHANGED <<factoryVars, lifeVars, dunVars>>
    /\ LET u == treq[r].user_id
           account == [id |-> uuid_seq + 1, slug |-> AccountSlug(u, uuid_seq + 1)]
           membership == [id |-> uuid_seq + 2, user_id |-> u,
                          account_id |-> uuid_seq + 1, role |-> AdminRole,
                          created_at |-> treq[r].created_at]
           fallback == FirstAccountOf(user_accounts, u)
       IN  \E db_error \in BOOLEAN :
             IF db_error
             THEN /\ treq' = [treq EXCEPT ![r].pc = "raised"]
                  /\ UNCHANGED <<accounts, user_accounts>>
             ELSE IF AccountInsertConflicts(accounts, user_accounts, account, membership)
             THEN /\ treq' = [treq EXCEPT ![r] =
                         IF fallback # Null
                         THEN [@ EXCEPT !.pc = "returned", !.account_id = fallback]
                         ELSE [@ EXCEPT !.pc = "raised"]]
                  /\ UNCHANGED <<accounts, user_accounts>>
             ELSE /\ accounts' = accounts \cup {account}
                  /\ user_accounts' = user_accounts \cup {membership}
                  /\ treq' = [treq EXCEPT ![r] =
                         [@ EXCEPT !.pc = "returned", !.account_id = account.id]]

TenantNext ==
    \E r \in TenantReqs :
        \/ GetUserAccountId(r)
        \/ CreateDefaultRecheck(r)
        \/ CreateDefaultInsert(r)

SpecTenant == TenantInit /\ [][TenantNext]_vars

(***************************************************************************)
(* C2: when _get_user_account_id is called concurrently for a user that    *)
(* has no membership yet, exactly one accounts row and one user_accounts   *)
(* row (role admin) exist for that user afterwards and the calls return    *)
(* the same account_id.                                                    *)
(***************************************************************************)
TenantReturned(r) == treq[r].pc = "returned"

C2_OneAccountPerNewUser ==
    \A r1, r2 \in TenantReqs :
        (r1 # r2 /\ treq[r1].user_id = treq[r2].user_id
         /\ TenantReturned(r1) /\ TenantReturned(r2))
        => /\ treq[r1].account_id = treq[r2].account_id
           /\ Cardinality(Memberships(user_accounts, treq[r1].user_id)) = 1
           /\ \A m \in Memberships(user_accounts, treq[r1].user_id) :
                  m.role = AdminRole


(***************************************************************************)
(* Atomic Subscription Factory (repository.py, get_or_create_subscription_ *)
(* atomic under _execute_in_transaction) and the three endpoints that      *)
(* create a user_subscriptions row: get_feature_access, create_customer_   *)
(* portal (both through the factory) and start_trial (a plain insert).     *)
(***************************************************************************)
FactoryUsers == {UserA, UserB, UserC}
FactoryReqs == 1..NumFactoryReqs
FactoryKinds == {"feature_access", "customer_portal", "start_trial"}

TrialDays == 14          \* timedelta(days=14) in start_trial and get_feature_access
PortalTrialDays == 28    \* timedelta(days=28) in create_customer_portal

MemberRole == "member"   \* UserRole.MEMBER.value

\* UserA (admin) and UserB (member) belong to account 1, UserC owns account 2.
OnboardedAccounts ==
    {[id |-> 1, slug |-> AccountSlug(UserA, 1)], [id |-> 2, slug |-> AccountSlug(UserC, 2)]}
OnboardedMemberships ==
    {[id |-> 3, user_id |-> UserA, account_id |-> 1, role |-> AdminRole, created_at |-> 1],
     [id |-> 4, user_id |-> UserB, account_id |-> 1, role |-> MemberRole, created_at |-> 2],
     [id |-> 5, user_id |-> UserC, account_id |-> 2, role |-> AdminRole, created_at |-> 3]}

\* UserSubscription(status=TRIAL, ...) as the endpoints construct it.
TrialSubscription(id, user_id, account_id, days, customer) ==
    [id |-> id, user_id |-> user_id, account_id |-> account_id, plan |-> "free",
     status |-> "trial", trial_start_date |-> now, trial_end_date |-> now + days,
     current_period_start |-> Null, current_period_end |-> Null,
     stripe_subscription_id |-> Null, stripe_customer_id |-> customer,
     canceled_at |-> Null, cancel_at_period_end |-> FALSE]

\* SELECT s.* FROM user_subscriptions s WHERE s.account_id = $1, then rows[0]
SubscriptionsOf(subs, account_id) == {s \in subs : s.account_id = account_id}
GetUserSubscription(subs, account_id) ==
    LET rows == SubscriptionsOf(subs, account_id)
    IN  IF rows = {} THEN Null
        ELSE (CHOOSE s \in rows : \A o \in rows : s.id <= o.id).id

\* The uniqueness constraints of user_subscriptions: the primary key and one row
\* per account_id.
SubscriptionInsertConflicts(subs, row) ==
    \E s \in subs : s.id = row.id \/ s.account_id = row.account_id

\* A request is inside _execute_in_transaction's critical section from
\* pg_advisory_xact_lock until its transaction ends.
\* The lock ids of the users, computed once.
LockIdOf == [u \in {UserA, UserB, UserC} |-> LockId(u)]

InCriticalSection(r) == freq[r].pc \in {"locked", "creating"}
HoldsLock(r, lock_id) == InCriticalSection(r) /\ LockIdOf[freq[r].user_id] = lock_id

FactoryInit ==
    /\ accounts = OnboardedAccounts
    /\ user_accounts = OnboardedMemberships
    /\ uuid_seq = 5
    /\ clock = 3
    /\ treq = <<>>
    /\ user_subscriptions = {}
    /\ stripe_seq = 0
    /\ now = 0
    /\ freq \in [FactoryReqs ->
                   {[pc |-> "start", kind |-> k, user_id |-> u,
                     account_id |-> FirstAccountOf(OnboardedMemberships, u),
                     atomic |-> "none", sub_id |-> Null, result |-> "none"] :
                    k \in FactoryKinds, u \in FactoryUsers}]
    /\ insert_log = {}
    /\ LifecycleUnused
    /\ DunningUnused

\* get_feature_access 928, create_customer_portal 797, start_trial 251:
\* repo.get_user_subscription(); an existing row is returned as it is.
LookupSubscription(r) ==
    /\ freq[r].pc = "start"
    /\ LET found == GetUserSubscription(user_subscriptions, freq[r].account_id)
       IN  freq' = [freq EXCEPT ![r] =
                IF found # Null
                THEN [@ EXCEPT !.pc = "done", !.sub_id = found, !.result = "subscription"]
                ELSE [@ EXCEPT !.pc = IF freq[r].kind = "start_trial" THEN "insert"
                                       ELSE "begin"]]
    /\ UNCHANGED <<user_subscriptions, stripe_seq, now, insert_log>>
    /\ UNCHANGED <<tenantVars, lifeVars, dunVars>>

\* _execute_in_transaction 130-140: open the transaction and take
\* pg_advisory_xact_lock(crc32(user_id) & 0x7FFFFFFF); waits while another
\* transaction holds the same lock id.
AcquireAdvisoryLock(r) ==
    /\ freq[r].pc = "begin"
    /\ \A o \in FactoryReqs : o # r => ~HoldsLock(o, LockIdOf[freq[r].user_id])
    /\ freq' = [freq EXCEPT ![r].pc = "locked"]
    /\ UNCHANGED <<user_subscriptions, stripe_seq, now, insert_log>>
    /\ UNCHANGED <<tenantVars, lifeVars, dunVars>>

\* get_or_create_subscription_atomic 699-713: the re-query inside the lock; a
\* row that is found is returned and the transaction commits.
AtomicRequery(r) ==
    /\ freq[r].pc = "locked"
    /\ LET found == GetUserSubscription(user_subscriptions, freq[r].account_id)
       IN  freq' = [freq EXCEPT ![r] =
                IF found # Null
                THEN [@ EXCEPT !.pc = "done", !.atomic = "found", !.sub_id = found,
                               !.result = "subscription"]
                ELSE [@ EXCEPT !.pc = "creating"]]
    /\ UNCHANGED <<user_subscriptions, stripe_seq, now, insert_log>>
    /\ UNCHANGED <<tenantVars, lifeVars, dunVars>>

\* What the endpoint answers when get_or_create_subscription_atomic raises:
\* get_feature_access 971-974 falls back to _get_temporary_trial_access(),
\* create_customer_portal 841-846 answers an HTTP error.
OnAtomicFailure(kind) ==
    IF kind = "feature_access" THEN "temporary_trial_access" ELSE "http_error"

\* get_or_create_subscription_atomic 715-734: subscription_factory(), the INSERT
\* and the commit.  Nothing in the function catches an exception: a uniqueness
\* violation, like any other failure, rolls the transaction back and is raised
\* to the caller.
AtomicInsert(r) ==
    /\ freq[r].pc = "creating"
    /\ UNCHANGED <<now, accounts, user_accounts, clock, treq, lifeVars, dunVars>>
    /\ LET portal == freq[r].kind = "customer_portal"
           row == TrialSubscription(uuid_seq + 1, freq[r].user_id, freq[r].account_id,
                                    IF portal THEN PortalTrialDays ELSE TrialDays,
                                    IF portal THEN stripe_seq + 1 ELSE Null)
       IN  \E failure \in {"none", "factory_error", "db_error"} :
             IF failure = "factory_error"
             THEN /\ freq' = [freq EXCEPT ![r] =
                        [@ EXCEPT !.pc = "done", !.atomic = "factory_error",
                                  !.result = OnAtomicFailure(freq[r].kind)]]
                  /\ UNCHANGED <<user_subscriptions, stripe_seq, insert_log>>
             ELSE /\ stripe_seq' = IF portal THEN stripe_seq + 1 ELSE stripe_seq
                  /\ IF failure = "db_error"
                     THEN /\ freq' = [freq EXCEPT ![r] =
                                [@ EXCEPT !.pc = "done", !.atomic = "db_error",
                                          !.result = OnAtomicFailure(freq[r].kind)]]
                          /\ UNCHANGED <<user_subscriptions, insert_log>>
                     ELSE IF SubscriptionInsertConflicts(user_subscriptions, row)
                     THEN /\ freq' = [freq EXCEPT ![r] =
                                [@ EXCEPT !.pc = "done", !.atomic = "unique_violation",
                                          !.result = OnAtomicFailure(freq[r].kind)]]
                          /\ UNCHANGED <<user_subscriptions, insert_log>>
                     ELSE /\ user_subscriptions' = user_subscriptions \cup {row}
                          /\ insert_log' = insert_log \cup
                                {[id |-> row.id, request |-> r, locked |-> TRUE]}
                          /\ freq' = [freq EXCEPT ![r] =
                                [@ EXCEPT !.pc = "done", !.atomic = "created",
                                          !.sub_id = row.id, !.result = "subscription"]]
    /\ uuid_seq' = uuid_seq + 1

\* start_trial 257-353: get_or_create_stripe_customer, then
\* repo.create_user_subscription (repository.py 738-754), an INSERT on its own
\* connection with no transaction and no advisory lock.  On "duplicate key value
\* violates unique constraint" the handler reaches asyncio.sleep (line 328), and
\* asyncio is not imported by the module: the NameError ends the request, as any
\* other failure of the insert does (line 353).
StartTrialInsert(r) ==
    /\ freq[r].pc = "insert"
    /\ uuid_seq' = uuid_seq + 1
    /\ stripe_seq' = stripe_seq + 1
    /\ UNCHANGED <<now, accounts, user_accounts, clock, treq, lifeVars, dunVars>>
    /\ LET row == TrialSubscription(uuid_seq + 1, freq[r].user_id, freq[r].account_id,
                                    TrialDays, stripe_seq + 1)
       IN  \E db_error \in BOOLEAN :
             IF db_error \/ SubscriptionInsertConflicts(user_subscriptions, row)
             THEN /\ freq' = [freq EXCEPT ![r] =
                        [@ EXCEPT !.pc = "done", !.result = "http_error"]]
                  /\ UNCHANGED <<user_subscriptions, insert_log>>
             ELSE /\ user_subscriptions' = user_subscriptions \cup {row}
                  /\ insert_log' = insert_log \cup
                        {[id |-> row.id, request |-> r,
                          locked |-> HoldsLock(r, LockIdOf[freq[r].user_id])]}
                  /\ freq' = [freq EXCEPT ![r] =
                        [@ EXCEPT !.pc = "done", !.sub_id = row.id,
                                  !.result = "subscription"]]

FactoryNext ==
    \E r \in FactoryReqs :
        \/ LookupSubscription(r)
        \/ AcquireAdvisoryLock(r)
        \/ AtomicRequery(r)
        \/ AtomicInsert(r)
        \/ StartTrialInsert(r)

SpecFactory == FactoryInit /\ [][FactoryNext]_vars

FactoryDone == \A r \in FactoryReqs : freq[r].pc = "done"

\* The calls of get_or_create_subscription_atomic made for account a.
AtomicCalls(a) ==
    {r \in FactoryReqs : freq[r].account_id = a /\ freq[r].atomic # "none"}

(***************************************************************************)
(* C1: for any set of concurrent calls of get_or_create_subscription_      *)
(* atomic for the same account, once all calls have finished exactly one   *)
(* user_subscriptions row exists for the account and every call returned   *)
(* a row with that id.  (Calls that met an injected database or factory    *)
(* failure, and runs in which start_trial inserted a row, are left out:    *)
(* the statement is about the factory alone.)                              *)
(***************************************************************************)
C1_OneSubscriptionPerAccount ==
    \A a \in {acc.id : acc \in accounts} :
        (/\ FactoryDone
         /\ AtomicCalls(a) # {}
         /\ \A r \in AtomicCalls(a) : freq[r].atomic \notin {"db_error", "factory_error"}
         /\ \A e \in insert_log : e.locked)
        => /\ Cardinality(SubscriptionsOf(user_subscriptions, a)) = 1
           /\ \A r \in AtomicCalls(a) :
                 /\ freq[r].atomic \in {"found", "created"}
                 /\ freq[r].sub_id = GetUserSubscription(user_subscriptions, a)

(***************************************************************************)
(* C8: no two requests acting for the same account are inside the critical *)
(* section of get_or_create_subscription_atomic at the same time, whatever *)
(* member user id each runs under.                                         *)
(***************************************************************************)
C8_TenantMutualExclusion ==
    \A r1, r2 \in FactoryReqs :
        (r1 # r2 /\ freq[r1].account_id = freq[r2].account_id)
        => ~(InCriticalSection(r1) /\ InCriticalSection(r2))

(***************************************************************************)
(* C9: every insertion of a user_subscriptions row, on every creation path,*)
(* is performed while the inserting request holds the advisory lock.       *)
(***************************************************************************)
C9_InsertsHoldLock == \A e \in insert_log : e.locked

(***************************************************************************)
(* C10: a uniqueness violation of the insert inside get_or_create_         *)
(* subscription_atomic is caught and resolved by re-reading the winning    *)
(* row, so it is never surfaced to the caller; any other failure is.       *)
(***************************************************************************)
C10_UniqueViolationResolved ==
    \A r \in FactoryReqs :
        /\ freq[r].atomic # "unique_violation"
        /\ freq[r].atomic \in {"db_error", "factory_error"}
             => freq[r].result # "subscription"

(***************************************************************************)
(* Subscription lifecycle (subscriptions/__init__.py): trial creation,     *)
(* upgrade_subscription, cancel_subscription, the trial conversion sweep   *)
(* (process_expired_trials / convert_trial_to_basic) and the handlers of   *)
(* the payment processor's subscription webhooks.                          *)
(***************************************************************************)
NumLifeProcs == 2        \* sweep runs, upgrade and cancel requests in one behaviour
MaxTicks == 2            \* how often the clock advances
MaxStripeEvents == 1     \* webhook events the processor delivers
MaxStartDay == 0         \* the last day on which a trial begins
MaxLifecycleSweeps == 1  \* sweep runs in a behaviour with webhook events

LifeUsers == {UserA, UserC}      \* the users who start trials
RequestUsers == {UserA}          \* the users who send upgrade and cancel requests
LifeProcs == 1..NumLifeProcs

PeriodDays == 30         \* recurring={"interval": "month"}
BasicPlan == "basic"     \* get_subscription_plan_by_slug("basic")
PremiumPlan == "premium" \* request.plan_slug of the upgrade request
\* the values of stripe_subscription['status'] the webhook can carry
StripeStatuses == {"active", "past_due", "canceled", "incomplete"}

\* None, where a UserSubscription object is expected
NoSubscription == [id |-> Null]

\* repo.get_user_subscription(): the row of the account, rows[0], or None
SubscriptionRow(subs, account_id) ==
    LET rows == SubscriptionsOf(subs, account_id)
    IN  IF rows = {} THEN NoSubscription
        ELSE CHOOSE s \in rows : \A o \in rows : s.id <= o.id

\* PaymentRepository(user_id).get_user_subscription()
CurrentSubscription(user_id) ==
    SubscriptionRow(user_subscriptions, FirstAccountOf(user_accounts, user_id))

\* repo.update_user_subscription(obj): every column is overwritten with the
\* object's value WHERE id = $1 AND user_id = $2 AND account_id = $3.
UpdateUserSubscription(subs, user_id, obj) ==
    LET account_id == FirstAccountOf(user_accounts, user_id)
    IN  {IF s.id = obj.id /\ s.user_id = user_id /\ s.account_id = account_id
         THEN [obj EXCEPT !.user_id = s.user_id, !.account_id = s.account_id]
         ELSE s : s \in subs}

\* the rows process_expired_trials selects
ExpiredTrials(subs, current_timestamp) ==
    {s \in subs : /\ s.status = "trial"
                  /\ s.trial_end_date # Null
                  /\ s.trial_end_date < current_timestamp
                  /\ s.stripe_customer_id # Null}

\* rows = await conn.fetch(query): the selected rows in any order
Orderings(S) ==
    {seq \in [1..Cardinality(S) -> S] :
        \A i, j \in 1..Cardinality(S) : i # j => seq[i] # seq[j]}

\* billing_start_time = max(now, original_trial_end) if original_trial_end else now
BackDatedAnchor(current_time, original_trial_end) ==
    IF original_trial_end # Null THEN original_trial_end ELSE current_time
BillingAnchor(current_time, original_trial_end) ==
    IF original_trial_end # Null /\ original_trial_end > current_time
    THEN original_trial_end
    ELSE current_time

\* stripe.Subscription.create(...): what the processor then holds
StripeSubscription(id, user_id, customer, for_sub, origin, anchor, trial_end) ==
    [id |-> id, user_id |-> user_id, customer |-> customer, for_sub |-> for_sub,
     origin |-> origin, billing_cycle_anchor |-> anchor,
     original_trial_end |-> trial_end, created |-> now,
     current_period_start |-> anchor, current_period_end |-> anchor + PeriodDays,
     status |-> "active", cancel_at_period_end |-> FALSE]

\* Sweep runs and requests are numbered in the order in which they start.
MayStart(p) == \A o \in LifeProcs : o < p => proc[o].pc # "start"

SweepRunning(p) == proc[p].kind = "sweep" /\ proc[p].pc \in {"loop", "persist"}

lifeFrame == <<accounts, user_accounts, clock, treq, freq, insert_log, dunVars>>

\* The state of a sweep run or request that has not started yet.
ProcStart(kind, user_id, at_period_end) ==
    [kind |-> kind, pc |-> "start", user_id |-> user_id,
     cancel_at_period_end |-> at_period_end, obj |-> NoSubscription,
     rows |-> <<>>, count |-> 0, failed |-> 0, moved |-> 0, selected |-> {}, rejected |-> {}, solo |-> TRUE, result |-> "none"]
SweepStarts == {ProcStart("sweep", <<>>, FALSE)}
UpgradeStarts == {ProcStart("upgrade", u, FALSE) : u \in RequestUsers}
CancelStarts == {ProcStart("cancel", u, b) : u \in RequestUsers, b \in BOOLEAN}

\* Two onboarded accounts without a subscription, on day 0.
LifeStateInit ==
    /\ accounts = OnboardedAccounts
    /\ user_accounts = OnboardedMemberships
    /\ uuid_seq = 5
    /\ clock = 3
    /\ treq = <<>>
    /\ freq = <<>>
    /\ insert_log = {}
    /\ user_subscriptions = {}
    /\ stripe_seq = 0
    /\ now = 0
    /\ stripe_subs = {}
    /\ ticks = 0
    /\ events = 0
    /\ DunningUnused

LifecycleInit ==
    /\ LifeStateInit
    /\ proc \in [LifeProcs -> SweepStarts \cup UpgradeStarts \cup CancelStarts]
    /\ Cardinality({p \in LifeProcs : proc[p].kind = "sweep"}) <= MaxLifecycleSweeps

\* The clock advances: first by a whole trial period, then by three days at a
\* time.
Tick ==
    /\ ticks < MaxTicks
    /\ ticks' = ticks + 1
    /\ now' = now + (IF now < TrialDays THEN TrialDays ELSE 3)
    /\ UNCHANGED <<user_subscriptions, stripe_seq, uuid_seq, stripe_subs, proc, events>>
    /\ UNCHANGED lifeFrame

\* start_trial 233-353 for an account without a subscription: a Stripe
\* customer and a 14-day trial row.
StartTrial(u) ==
    /\ now <= MaxStartDay
    /\ CurrentSubscription(u).id = Null
    /\ user_subscriptions' = user_subscriptions \cup
          {TrialSubscription(uuid_seq + 1, u, FirstAccountOf(user_accounts, u),
                             TrialDays, stripe_seq + 1)}
    /\ uuid_seq' = uuid_seq + 1
    /\ stripe_seq' = stripe_seq + 1
    /\ UNCHANGED <<now, stripe_subs, proc, ticks, events>>
    /\ UNCHANGED lifeFrame

\* get_feature_access 941-967: auto-enrollment, a 14-day trial row without a
\* Stripe customer.
AutoEnroll(u) ==
    /\ now <= MaxStartDay
    /\ CurrentSubscription(u).id = Null
    /\ user_subscriptions' = user_subscriptions \cup
          {TrialSubscription(uuid_seq + 1, u, FirstAccountOf(user_accounts, u),
                             TrialDays, Null)}
    /\ uuid_seq' = uuid_seq + 1
    /\ UNCHANGED <<now, stripe_seq, stripe_subs, proc, ticks, events>>
    /\ UNCHANGED lifeFrame

\* process_expired_trials 1157-1168: connect and select the expired trials; a
\* failure here ends the run with an exception.
SweepSelect(p) ==
    /\ proc[p].kind = "sweep" /\ proc[p].pc = "start" /\ MayStart(p)
    /\ \E db_error \in BOOLEAN :
         IF db_error
         THEN proc' = [proc EXCEPT ![p] = [@ EXCEPT !.pc = "done", !.result = "raised"]]
         ELSE \E rows \in Orderings(ExpiredTrials(user_subscriptions, now)) :
                proc' = [proc EXCEPT ![p] =
                    [@ EXCEPT !.pc = "loop", !.rows = rows,
                              !.selected = {s.id : s \in ExpiredTrials(user_subscriptions, now)},
                              !.solo = ~\E o \in LifeProcs : o # p /\ SweepRunning(o)]]
    /\ UNCHANGED <<user_subscriptions, stripe_seq, uuid_seq, now, stripe_subs,
                   ticks, events>>
    /\ UNCHANGED lifeFrame

\* An exception that leaves process_expired_trials ends the run.
SweepAborted(p) == [proc[p] EXCEPT !.pc = "done", !.result = "raised"]
\* process_expired_trials 1175-1177: except Exception ... continue; the loop
\* goes on with the next row.
AfterRowFailure(p) ==
    [proc[p] EXCEPT !.pc = "loop", !.obj = NoSubscription,
                    !.rows = Tail(@), !.failed = @ + 1]

\* convert_trial_to_basic 1287-1291: the status written after a StripeError
CanceledStatus == "canceled"
RejectedStatus == "past_due"

\* convert_trial_to_basic 1191-1246 and 1287-1293 for the next selected row: the
\* plan lookup and the re-read of the subscription (a failure, or a row without
\* a customer, raises), then stripe.Subscription.create.  A StripeError marks
\* the object past_due, writes it back and is raised again; the sweep's loop
\* catches whatever is raised and goes on with the next row.
ConvertCharge(p) ==
    /\ proc[p].kind = "sweep" /\ proc[p].pc = "loop" /\ proc[p].rows # <<>>
    /\ UNCHANGED <<uuid_seq, now, ticks, events>>
    /\ UNCHANGED lifeFrame
    /\ LET subscription_row == Head(proc[p].rows)
           user_id == subscription_row.user_id
           subscription == CurrentSubscription(user_id)
           original_trial_end == subscription_row.trial_end_date
           billing_start_time == BillingAnchor(now, original_trial_end)
           created == StripeSubscription(stripe_seq + 1, user_id,
                          subscription.stripe_customer_id, subscription.id, "sweep",
                          billing_start_time, original_trial_end)
       IN  \E outcome \in {"ok", "error", "stripe_error"} :
             IF \/ outcome = "error"
                \/ subscription.id = Null
                \/ subscription.stripe_customer_id = Null
             THEN /\ proc' = [proc EXCEPT ![p] = AfterRowFailure(p)]
                  /\ UNCHANGED <<user_subscriptions, stripe_seq, stripe_subs>>
             ELSE IF outcome = "stripe_error"
             THEN /\ proc' = [proc EXCEPT ![p] =
                        [AfterRowFailure(p) EXCEPT !.rejected = @ \cup {subscription.id}]]
                  /\ UNCHANGED <<stripe_seq, stripe_subs>>
                  /\ \E db_error \in BOOLEAN :
                       user_subscriptions' =
                          IF db_error THEN user_subscriptions
                          ELSE UpdateUserSubscription(user_subscriptions, user_id,
                                  [subscription EXCEPT !.status = RejectedStatus])
             ELSE /\ stripe_seq' = stripe_seq + 1
                  /\ stripe_subs' = stripe_subs \cup {created}
                  /\ proc' = [proc EXCEPT ![p] =
                        [@ EXCEPT !.pc = "persist", !.obj =
                            [subscription EXCEPT
                                !.plan = BasicPlan, !.status = "active",
                                !.stripe_subscription_id = created.id,
                                !.trial_start_date = Null, !.trial_end_date = Null,
                                !.current_period_start = created.current_period_start,
                                !.current_period_end = created.current_period_end]]]
                  /\ UNCHANGED user_subscriptions

\* convert_trial_to_basic 1266-1285: update_user_subscription (its result is not
\* looked at) and create_billing_history; converted_count is incremented only
\* when neither raised.  moved counts the rows that this run's write took from
\* trial to active.
ConvertPersist(p) ==
    /\ proc[p].kind = "sweep" /\ proc[p].pc = "persist"
    /\ \E outcome \in {"ok", "update_failed", "history_failed"} :
         /\ user_subscriptions' =
               IF outcome = "update_failed" THEN user_subscriptions
               ELSE UpdateUserSubscription(user_subscriptions,
                       Head(proc[p].rows).user_id, proc[p].obj)
         /\ proc' = [proc EXCEPT ![p] =
               [(IF outcome = "ok"
                 THEN [@ EXCEPT !.pc = "loop", !.obj = NoSubscription,
                                !.rows = Tail(proc[p].rows), !.count = @ + 1]
                 ELSE AfterRowFailure(p))
                EXCEPT !.moved =
                   IF /\ outcome # "update_failed"
                      /\ \E s \in user_subscriptions :
                            s.id = proc[p].obj.id /\ s.status = "trial"
                   THEN @ + 1 ELSE @]]
    /\ UNCHANGED <<stripe_seq, uuid_seq, now, stripe_subs, ticks, events>>
    /\ UNCHANGED lifeFrame

\* process_expired_trials 1178-1182: the loop is over, the count is returned.
SweepFinish(p) ==
    /\ proc[p].kind = "sweep" /\ proc[p].pc = "loop" /\ proc[p].rows = <<>>
    /\ proc' = [proc EXCEPT ![p] = [@ EXCEPT !.pc = "done", !.result = "returned"]]
    /\ UNCHANGED <<user_subscriptions, stripe_seq, uuid_seq, now, stripe_subs,
                   ticks, events>>
    /\ UNCHANGED lifeFrame

\* upgrade_subscription 491-546: read the subscription (404 without one),
\* get_or_create_stripe_customer (repository.py 623-675, which writes a new
\* customer id into the row) and stripe.Subscription.create.
UpgradeCharge(p) ==
    /\ proc[p].kind = "upgrade" /\ proc[p].pc = "start" /\ MayStart(p)
    /\ UNCHANGED <<uuid_seq, now, ticks, events>>
    /\ UNCHANGED lifeFrame
    /\ LET user_id == proc[p].user_id
           current_subscription == CurrentSubscription(user_id)
           has_customer == current_subscription.stripe_customer_id # Null
           stripe_customer_id == IF has_customer
                                 THEN current_subscription.stripe_customer_id
                                 ELSE stripe_seq + 1
           created == StripeSubscription(stripe_seq + 2, user_id, stripe_customer_id,
                          current_subscription.id, "upgrade", now, Null)
       IN  IF current_subscription.id = Null
           THEN /\ proc' = [proc EXCEPT ![p] =
                      [@ EXCEPT !.pc = "done", !.result = "not_found"]]
                /\ UNCHANGED <<user_subscriptions, stripe_seq, stripe_subs>>
           ELSE \E stripe_error \in BOOLEAN :
                  IF stripe_error
                  THEN /\ proc' = [proc EXCEPT ![p] =
                             [@ EXCEPT !.pc = "done", !.result = "http_error"]]
                       /\ UNCHANGED <<user_subscriptions, stripe_seq, stripe_subs>>
                  ELSE /\ stripe_seq' = stripe_seq + 2
                       /\ stripe_subs' = stripe_subs \cup {created}
                       /\ user_subscriptions' =
                             {IF s.id = current_subscription.id /\ ~has_customer
                              THEN [s EXCEPT !.stripe_customer_id = stripe_customer_id]
                              ELSE s : s \in user_subscriptions}
                       /\ proc' = [proc EXCEPT ![p] =
                             [@ EXCEPT !.pc = "persist", !.obj =
                                 [current_subscription EXCEPT
                                     !.plan = PremiumPlan, !.status = "active",
                                     !.current_period_start = created.current_period_start,
                                     !.current_period_end = created.current_period_end,
                                     !.stripe_subscription_id = created.id,
                                     !.stripe_customer_id = stripe_customer_id]]]

\* upgrade_subscription 566-572: update_user_subscription; None or an exception
\* is answered with HTTP 500.
UpgradePersist(p) ==
    /\ proc[p].kind = "upgrade" /\ proc[p].pc = "persist"
    /\ \E db_error \in BOOLEAN :
         LET updated == UpdateUserSubscription(user_subscriptions, proc[p].user_id,
                                               proc[p].obj)
             matched == \E s \in user_subscriptions :
                           /\ s.id = proc[p].obj.id
                           /\ s.user_id = proc[p].user_id
                           /\ s.account_id = FirstAccountOf(user_accounts, proc[p].user_id)
         IN  /\ user_subscriptions' = IF db_error THEN user_subscriptions ELSE updated
             /\ proc' = [proc EXCEPT ![p] =
                   [@ EXCEPT !.pc = "done", !.obj = NoSubscription,
                             !.result = IF db_error \/ ~matched THEN "http_error"
                                        ELSE "subscription"]]
    /\ UNCHANGED <<stripe_seq, uuid_seq, now, stripe_subs, ticks, events>>
    /\ UNCHANGED lifeFrame

\* canceled_at = now, wherever the status becomes CANCELED (lines 611-612,
\* 1402-1403 and 1427-1428)
NoCanceledAt(current_time) == Null
CanceledAt(current_time) == current_time

\* The processor's side of cancel_subscription 594-604.
StripeCancel(subs, id, at_period_end) ==
    {IF s.id = id
     THEN IF at_period_end THEN [s EXCEPT !.cancel_at_period_end = TRUE]
          ELSE [s EXCEPT !.status = "canceled"]
     ELSE s : s \in subs}

\* cancel_subscription 589-590: the guard against a second cancellation
NeverCanceled(subscription) == FALSE
AlreadyCanceled(subscription) == subscription.status = "canceled"

\* cancel_subscription 584-615: read the subscription (404 without one, 400 when
\* it is canceled already), cancel on the processor's side if there is a
\* subscription there, and change the object.
CancelRequest(p) ==
    /\ proc[p].kind = "cancel" /\ proc[p].pc = "start" /\ MayStart(p)
    /\ UNCHANGED <<user_subscriptions, stripe_seq, uuid_seq, now, ticks, events>>
    /\ UNCHANGED lifeFrame
    /\ LET current_subscription == CurrentSubscription(proc[p].user_id)
           at_period_end == proc[p].cancel_at_period_end
       IN  IF current_subscription.id = Null
           THEN /\ proc' = [proc EXCEPT ![p] =
                      [@ EXCEPT !.pc = "done", !.result = "not_found"]]
                /\ UNCHANGED stripe_subs
           ELSE IF AlreadyCanceled(current_subscription)
           THEN /\ proc' = [proc EXCEPT ![p] =
                      [@ EXCEPT !.pc = "done", !.result = "conflict"]]
                /\ UNCHANGED stripe_subs
           ELSE \E stripe_error \in BOOLEAN :
                  IF stripe_error /\ current_subscription.stripe_subscription_id # Null
                  THEN /\ proc' = [proc EXCEPT ![p] =
                             [@ EXCEPT !.pc = "done", !.result = "http_error"]]
                       /\ UNCHANGED stripe_subs
                  ELSE /\ stripe_subs' =
                             StripeCancel(stripe_subs,
                                 current_subscription.stripe_subscription_id,
                                 at_period_end)
                       /\ proc' = [proc EXCEPT ![p] =
                             [@ EXCEPT !.pc = "persist", !.obj =
                                 IF at_period_end
                                 THEN [current_subscription EXCEPT
                                          !.cancel_at_period_end = TRUE]
                                 ELSE [current_subscription EXCEPT
                                          !.cancel_at_period_end = FALSE,
                                          !.status = "canceled",
                                          !.canceled_at = CanceledAt(now)]]]

\* cancel_subscription 617-630: update_user_subscription; None or an exception
\* is answered with HTTP 500.
CancelPersist(p) ==
    /\ proc[p].kind = "cancel" /\ proc[p].pc = "persist"
    /\ \E db_error \in BOOLEAN :
         /\ user_subscriptions' =
               IF db_error THEN user_subscriptions
               ELSE UpdateUserSubscription(user_subscriptions, proc[p].user_id,
                                           proc[p].obj)
         /\ proc' = [proc EXCEPT ![p] =
               [@ EXCEPT !.pc = "done", !.obj = NoSubscription,
                         !.result = IF db_error THEN "http_error" ELSE "subscription"]]
    /\ UNCHANGED <<stripe_seq, uuid_seq, now, stripe_subs, ticks, events>>
    /\ UNCHANGED lifeFrame

\* handle_subscription_updated 1375-1408, for the event the processor sends
\* when subscription s changes to stripe_status: the period and the
\* cancel_at_period_end flag are copied in every case, the status only for
\* 'active', 'canceled' and 'past_due'.
HandleSubscriptionUpdated(s, stripe_status) ==
    /\ events < MaxStripeEvents
    /\ s.status # "canceled"
    /\ events' = events + 1
    /\ stripe_subs' = (stripe_subs \ {s}) \cup {[s EXCEPT !.status = stripe_status]}
    /\ LET subscription == CurrentSubscription(s.user_id)
           periods == [subscription EXCEPT
                          !.current_period_start = s.current_period_start,
                          !.current_period_end = s.current_period_end,
                          !.cancel_at_period_end = s.cancel_at_period_end]
           changed == IF stripe_status = "active"
                      THEN [periods EXCEPT !.status = "active"]
                      ELSE IF stripe_status = "canceled"
                      THEN [periods EXCEPT !.status = "canceled", !.canceled_at = CanceledAt(now)]
                      ELSE IF stripe_status = "past_due"
                      THEN [periods EXCEPT !.status = "past_due"]
                      ELSE periods
       IN  user_subscriptions' =
              IF subscription.id = Null THEN user_subscriptions
              ELSE UpdateUserSubscription(user_subscriptions, s.user_id, changed)
    /\ UNCHANGED <<stripe_seq, uuid_seq, now, proc, ticks>>
    /\ UNCHANGED lifeFrame

\* handle_subscription_deleted 1410-1432
HandleSubscriptionDeleted(s) ==
    /\ events < MaxStripeEvents
    /\ s.status # "canceled"
    /\ events' = events + 1
    /\ stripe_subs' = (stripe_subs \ {s}) \cup {[s EXCEPT !.status = "canceled"]}
    /\ LET subscription == CurrentSubscription(s.user_id)
       IN  user_subscriptions' =
              IF subscription.id = Null THEN user_subscriptions
              ELSE UpdateUserSubscription(user_subscriptions, s.user_id,
                      [subscription EXCEPT !.status = "canceled", !.canceled_at = CanceledAt(now)])
    /\ UNCHANGED <<stripe_seq, uuid_seq, now, proc, ticks>>
    /\ UNCHANGED lifeFrame

\* handle_checkout_completed 1295-1373, for the session that
\* create_checkout_session (418-479) opened for user_id with the customer of
\* get_or_create_stripe_customer and that the processor completed by creating
\* a subscription: plan, status ACTIVE, the processor's ids and the period are
\* written on the user's row, whatever its status is; the trial dates are not
\* touched.  An exception of update_user_subscription leaves the row as it was.
HandleCheckoutCompleted(user_id) ==
    /\ events < MaxStripeEvents
    /\ events' = events + 1
    /\ LET subscription == CurrentSubscription(user_id)
           has_customer == subscription.stripe_customer_id # Null
           customer == IF has_customer THEN subscription.stripe_customer_id
                       ELSE stripe_seq + 1
           stripe_subscription ==
               StripeSubscription(stripe_seq + 2, user_id, customer,
                                  subscription.id, "checkout", now, Null)
           completed == [subscription EXCEPT
                            !.plan = PremiumPlan, !.status = "active",
                            !.stripe_subscription_id = stripe_subscription.id,
                            !.stripe_customer_id = customer,
                            !.current_period_start = stripe_subscription.current_period_start,
                            !.current_period_end = stripe_subscription.current_period_end]
       IN  /\ subscription.id # Null
           /\ stripe_seq' = stripe_seq + 2
           /\ stripe_subs' = stripe_subs \cup {stripe_subscription}
           /\ \E db_error \in BOOLEAN :
                user_subscriptions' =
                   IF db_error
                   THEN {IF s.id = subscription.id /\ ~has_customer
                         THEN [s EXCEPT !.stripe_customer_id = customer]
                         ELSE s : s \in user_subscriptions}
                   ELSE UpdateUserSubscription(user_subscriptions, user_id, completed)
    /\ UNCHANGED <<uuid_seq, now, proc, ticks>>
    /\ UNCHANGED lifeFrame

\* The scheduler starts a run of the sweep when the run before it is over
\* (spec section 5: the sweeps run to completion before the next invocation).
ScheduledSweep(p) == (\A o \in LifeProcs : ~SweepRunning(o)) /\ SweepSelect(p)

\* The conversion sweep, run after run, with the upgrade requests that may
\* overlap a run.
SweepInit ==
    /\ LifeStateInit
    /\ proc \in [LifeProcs -> SweepStarts \cup UpgradeStarts]

SweepNext ==
    \/ Tick
    \/ \E u \in LifeUsers : StartTrial(u) \/ AutoEnroll(u)
    \/ \E p \in LifeProcs :
          \/ ScheduledSweep(p)
          \/ ConvertCharge(p)
          \/ ConvertPersist(p)
          \/ SweepFinish(p)
          \/ UpgradeCharge(p)
          \/ UpgradePersist(p)

SpecSweep == SweepInit /\ [][SweepNext]_vars

\* All operations on a subscription, with the processor's webhook events.
LifecycleNext ==
    \/ SweepNext
    \/ \E p \in LifeProcs : CancelRequest(p) \/ CancelPersist(p)
    \/ \E s \in stripe_subs :
          \/ \E stripe_status \in StripeStatuses : HandleSubscriptionUpdated(s, stripe_status)
          \/ HandleSubscriptionDeleted(s)
    \/ \E u \in RequestUsers : HandleCheckoutCompleted(u)

SpecLifecycle == LifecycleInit /\ [][LifecycleNext]_vars

\* the subscriptions the conversion sweep created at the processor for row id
SweepCreated(id) == {s \in stripe_subs : s.origin = "sweep" /\ s.for_sub = id}

\* no sweep run started while another one was selecting or converting
SweepsInSuccession == \A p \in LifeProcs : proc[p].solo

(***************************************************************************)
(* C3: in every reachable state every user_subscriptions row has           *)
(* trial_start_date null exactly when trial_end_date is null, and a row    *)
(* with status trial has current_period_start and current_period_end null. *)
(***************************************************************************)
C3_TrialPeriodExclusion ==
    \A s \in user_subscriptions :
        /\ (s.trial_start_date = Null) = (s.trial_end_date = Null)
        /\ s.status = "trial" =>
              s.current_period_start = Null /\ s.current_period_end = Null

(***************************************************************************)
(* C5: when the runs of the conversion sweep follow one another, at most   *)
(* one recurring subscription is ever created at the processor for a given *)
(* user_subscriptions row.                                                 *)
(***************************************************************************)
C5_NoDoubleConversion ==
    SweepsInSuccession =>
        \A s \in user_subscriptions : Cardinality(SweepCreated(s.id)) <= 1

(***************************************************************************)
(* C7 as the code has it: the billing_cycle_anchor the sweep passes to the *)
(* processor is the time of the conversion, which lies after the trial's   *)
(* end, and never the trial_end_date of the row.                           *)
(***************************************************************************)
C7_AnchorIsConversionTime ==
    \A s \in stripe_subs :
        s.origin = "sweep" =>
            /\ s.billing_cycle_anchor = s.created
            /\ s.billing_cycle_anchor > s.original_trial_end

\* a conversion three days after the end of the trial
C7_ConvertedThreeDaysLate ==
    \E s \in stripe_subs :
        s.origin = "sweep" /\ s.created = s.original_trial_end + 3

(***************************************************************************)
(* C7 as stated: when the sweep converts a trial whose trial_end_date lies *)
(* three days back, the billing_cycle_anchor equals trial_end_date.        *)
(***************************************************************************)
C7_AnchorIsTrialEnd ==
    \A s \in stripe_subs :
        (s.origin = "sweep" /\ s.created = s.original_trial_end + 3)
        => s.billing_cycle_anchor = s.original_trial_end

(***************************************************************************)
(* C11: a failure while converting one selected row never ends the run of  *)
(* the sweep: while rows remain, every step of the run leaves it in its    *)
(* loop at the same row or at the next one, and a run is ended by an       *)
(* exception only where it connects to the database and selects the rows.  *)
(***************************************************************************)
C11_RowFailureNeverAborts ==
    [][\A p \in LifeProcs :
          /\ (SweepRunning(p) /\ proc[p].rows # <<>>)
             => /\ SweepRunning(p)'
                /\ proc'[p].result = "none"
                /\ proc'[p].rows \in {proc[p].rows, Tail(proc[p].rows)}
          /\ (proc[p].kind = "sweep" /\ proc[p].result # "raised"
              /\ proc'[p].result = "raised")
             => proc[p].pc = "start"]_vars

\* a run that went on to charge another row after a row had failed
C11_ContinuedAfterFailure ==
    \E p \in LifeProcs :
        proc[p].kind = "sweep" /\ proc[p].failed >= 1 /\ proc[p].pc = "persist"

\* the rows with the given id
RowsWithId(subs, id) == {s \in subs : s.id = id}

\* the processor rejected the subscription for row id in this step of run p
RejectedNow(p, id) == id \in proc'[p].rejected /\ id \notin proc[p].rejected

CancelHandled(p) ==
    proc[p].kind = "cancel" /\ proc[p].pc = "start" /\ proc'[p].pc # "start"

(***************************************************************************)
(* C15: a cancel request that finds the subscription canceled already is   *)
(* rejected with a conflict, and neither the subscription row nor the      *)
(* subscription at the processor is changed by it.                         *)
(***************************************************************************)
C15_SecondCancelRejected ==
    [][\A p \in LifeProcs :
          (/\ CancelHandled(p)
           /\ CurrentSubscription(proc[p].user_id).id # Null
           /\ CurrentSubscription(proc[p].user_id).status = "canceled")
          => /\ proc'[p].pc = "done"
             /\ proc'[p].result = "conflict"
             /\ user_subscriptions' = user_subscriptions
             /\ stripe_subs' = stripe_subs]_vars

\* a cancel request was rejected with a conflict
C15_ConflictAnswered ==
    \E p \in LifeProcs :
        /\ proc[p].kind = "cancel" /\ proc[p].result = "conflict"
        /\ CurrentSubscription(proc[p].user_id).id # Null
        /\ CurrentSubscription(proc[p].user_id).status = "canceled"

(***************************************************************************)
(* C16: in every reachable state a subscription row with status canceled   *)
(* has canceled_at set, whether the cancel request, the                    *)
(* subscription-updated webhook or the subscription-deleted webhook made   *)
(* it canceled.                                                            *)
(***************************************************************************)
C16_CanceledHasCanceledAt ==
    \A s \in user_subscriptions : s.status = "canceled" => s.canceled_at # Null

\* a row canceled by a webhook event, and not by a cancel request
C16_CanceledByWebhook ==
    /\ events >= 1
    /\ \A p \in LifeProcs : proc[p].kind = "cancel" => proc[p].pc = "start"
    /\ \E s \in user_subscriptions : s.status = "canceled" /\ s.canceled_at = now

\* the row with this id went from trial to active in the step
Activated(id) ==
    /\ \E s \in user_subscriptions : s.id = id /\ s.status = "trial"
    /\ \E s \in user_subscriptions' : s.id = id /\ s.status = "active"

(***************************************************************************)
(* C19: after every trial -> active transition, whether made by the        *)
(* upgrade operation, by the checkout-completed handler or by the          *)
(* conversion sweep, the row has trial_start_date and trial_end_date null, *)
(* current_period_start and current_period_end set, and a plan.            *)
(***************************************************************************)
C19_ActivationClearsTrial ==
    [][\A s \in user_subscriptions' :
          Activated(s.id) =>
             /\ s.trial_start_date = Null /\ s.trial_end_date = Null
             /\ s.current_period_start # Null /\ s.current_period_end # Null
             /\ s.plan \in {BasicPlan, PremiumPlan}]_vars

\* SubscriptionStatus (models.py 21-26)
SubscriptionStatuses == {"trial", "active", "past_due", "canceled", "expired"}

\* the changes of status that the step makes on user_subscriptions rows
StatusChanges ==
    {e \in SubscriptionStatuses \X SubscriptionStatuses :
        /\ e[1] # e[2]
        /\ \E s \in user_subscriptions, t \in user_subscriptions' :
              s.id = t.id /\ s.status = e[1] /\ t.status = e[2]}

(***************************************************************************)
(* C20: every change of a subscription's status made by upgrade, cancel,   *)
(* the conversion sweep or the webhook handlers follows one of the edges   *)
(* trial->active, active->past_due, active->canceled, past_due->active,    *)
(* past_due->canceled, any->canceled, any->expired; no canceled or expired *)
(* subscription becomes active again and none goes back to trial.          *)
(***************************************************************************)
C20_StatusFollowsEdges ==
    [][LET StatusEdges ==
               {<<"trial", "active">>, <<"active", "past_due">>,
                <<"active", "canceled">>, <<"past_due", "active">>,
                <<"past_due", "canceled">>}
               \cup {<<from, "canceled">> : from \in SubscriptionStatuses}
               \cup {<<from, "expired">> : from \in SubscriptionStatuses}
       IN  StatusChanges \subseteq StatusEdges]_vars

(***************************************************************************)
(* C21: a successful cancel on a non-canceled subscription with            *)
(* cancel_at_period_end = true sets the flag and leaves status and         *)
(* canceled_at as they were; with cancel_at_period_end = false it sets     *)
(* status = canceled and stamps canceled_at.                               *)
(***************************************************************************)
C21_CancelModes ==
    [][\A p \in LifeProcs :
          (/\ proc[p].kind = "cancel" /\ proc[p].pc = "persist"
           /\ proc'[p].pc = "done" /\ proc'[p].result = "subscription") =>
             \A before \in user_subscriptions, after \in user_subscriptions' :
                (before.id = proc[p].obj.id /\ after.id = before.id) =>
                   IF proc[p].cancel_at_period_end
                   THEN /\ after.cancel_at_period_end
                        /\ after.status = before.status
                        /\ after.canceled_at = before.canceled_at
                   ELSE /\ after.status = "canceled"
                        /\ after.canceled_at # Null]_vars

(***************************************************************************)
(* C22: the value returned by process_expired_trials equals the number of  *)
(* subscriptions that this run moved from trial to active; rows whose      *)
(* conversion failed and rows whose stored state did not change are not    *)
(* counted.                                                                *)
(***************************************************************************)
C22_CountIsConversions ==
    \A p \in LifeProcs :
        (proc[p].kind = "sweep" /\ proc[p].result = "returned") =>
            proc[p].count = proc[p].moved

(***************************************************************************)
(* C27: if two runs of the conversion sweep overlap, or a run overlaps     *)
(* with an explicit upgrade of the same account, at most one recurring     *)
(* subscription is created at the processor for any one UserSubscription.  *)
(***************************************************************************)
C27_OverlapCreatesOne ==
    \A p, q \in LifeProcs :
        (/\ p # q
         /\ SweepRunning(p)
         /\ \/ SweepRunning(q)
            \/ proc[q].kind = "upgrade" /\ proc[q].pc = "persist")
        => \A s1, s2 \in stripe_subs : s1.for_sub = s2.for_sub => s1 = s2

(***************************************************************************)
(* C29: when a run of the conversion sweep completes, every subscription   *)
(* it selected has left the trial status and is active or past_due, so     *)
(* that no later run selects it again.                                     *)
(***************************************************************************)
C29_SelectedLeaveTrial ==
    [][\A p \in LifeProcs :
          (/\ proc[p].kind = "sweep"
           /\ proc[p].result # "returned" /\ proc'[p].result = "returned") =>
             \A s \in user_subscriptions' :
                s.id \in proc[p].selected => s.status \in {"active", "past_due"}]_vars

(***************************************************************************)
(* Dunning engine (dunning_logic.py, process_dunning_for_all_tenants) and  *)
(* the two ways a dunning rule is stored: the /dunning/rules endpoint and  *)
(* PaymentRepository.create_dunning_rule.                                  *)
(***************************************************************************)
NumDunningRuns == 2      \* runs of the engine in one behaviour
MaxRules == 2            \* dunning rules created in one behaviour
MaxDay == 2              \* the last calendar day; the first one is day 0

DunningUsers == {UserA, UserC}    \* the users of the /dunning/rules endpoint
RepositoryUsers == {UserA}        \* the users of PaymentRepository.create_dunning_rule
DunningRuns == 1..NumDunningRuns

\* channel: str of the endpoint's request model takes any string
ApiChannels == {"EMAIL"}
\* DunningChannel: EMAIL = "email", SMS = "sms", BOTH = "both"
DunningChannel == {"email", "sms", "both"}
\* offset_days: int of the request
RuleOffsets == {-1, 5}

\* InvoiceStatus values as they are stored
UnpaidStatus == "sent"
PaidStatus == "paid"

\* Invoice 1 of account 1 fell due four days before day 0.  Invoice 2 of
\* account 2 either is unpaid and falls due on day 1, or fell due three days
\* before day 0 and has been paid.
InvoiceRows(status2) ==
    {[id |-> 1, account_id |-> 1, due_date |-> -4, status |-> UnpaidStatus],
     [id |-> 2, account_id |-> 2, status |-> status2,
      due_date |-> IF status2 = PaidStatus THEN -3 ELSE 1]}

\* WHERE i.status NOT IN ('PAID', 'CANCELLED') AND i.due_date < $1
OverdueInvoices(inv, today) ==
    {i \in inv : i.status \notin {"PAID", "CANCELLED"} /\ i.due_date < today}

\* days_overdue = (now.date() - invoice['due_date']).days
DaysOverdue(today, invoice) == today - invoice.due_date

\* SELECT 1 FROM dunning_history WHERE invoice_id = $1 AND dunning_rule_id = $2
HistoryExists(history, invoice_id, rule_id) ==
    \E h \in history : h.invoice_id = invoice_id /\ h.dunning_rule_id = rule_id

\* the uniqueness constraint of dunning_history on (invoice_id, dunning_rule_id)
HistoryInsertConflicts(history, row) ==
    \E h \in history :
        h.invoice_id = row.invoice_id /\ h.dunning_rule_id = row.dunning_rule_id

\* what a run did with a pair
Dispatched == {"send_failed", "sent_unlogged", "sent_logged"}
Notified == {"sent_unlogged", "sent_logged"}

DunningRunning(r) == drun[r].pc \in {"check", "send", "log"}

\* The rules are set up before the engine first runs.
RulesOpen == \A r \in DunningRuns : drun[r].pc = "start"

dunFrame == <<accounts, user_accounts, clock, treq, freq, insert_log,
              user_subscriptions, stripe_seq, lifeVars>>

DunningInit ==
    /\ accounts = OnboardedAccounts
    /\ user_accounts = OnboardedMemberships
    /\ uuid_seq = 5
    /\ clock = 3
    /\ treq = <<>>
    /\ freq = <<>>
    /\ insert_log = {}
    /\ user_subscriptions = {}
    /\ stripe_seq = 0
    /\ LifecycleUnused
    /\ now = 0
    /\ dunning_rules = {}
    /\ \E status2 \in {UnpaidStatus, PaidStatus} : invoices = InvoiceRows(status2)
    /\ dunning_history = {}
    /\ drun = [r \in DunningRuns |->
                 [pc |-> "start", rules |-> <<>>, invoices |-> <<>>, i |-> 1, j |-> 1,
                  today |-> 0, solo |-> TRUE, result |-> "none"]]
    /\ dunning_log = {}

\* the next calendar day
NextDay ==
    /\ now < MaxDay
    /\ now' = now + 1
    /\ UNCHANGED <<uuid_seq, dunning_rules, invoices, dunning_history, drun, dunning_log>>
    /\ UNCHANGED dunFrame

\* POST /dunning/rules (apis/dunning 52-70): the request's offset_days,
\* channel and is_active are inserted as they come.
CreateDunningRule(u, offset_days, channel, is_active) ==
    /\ Cardinality(dunning_rules) < MaxRules
    /\ RulesOpen
    /\ dunning_rules' = dunning_rules \cup
          {[id |-> uuid_seq + 1, user_id |-> u,
            account_id |-> FirstAccountOf(user_accounts, u),
            offset_days |-> offset_days, channel |-> channel,
            is_active |-> is_active]}
    /\ uuid_seq' = uuid_seq + 1
    /\ UNCHANGED <<now, invoices, dunning_history, drun, dunning_log>>
    /\ UNCHANGED dunFrame

\* DunningRule(...) (models.py 436-456, which rejects a negative offset_days)
\* stored by PaymentRepository.create_dunning_rule 487-501 with channel.value.
RepositoryCreateDunningRule(u, offset_days, channel) ==
    /\ Cardinality(dunning_rules) < MaxRules
    /\ RulesOpen
    /\ offset_days >= 0
    /\ dunning_rules' = dunning_rules \cup
          {[id |-> uuid_seq + 1, user_id |-> u,
            account_id |-> FirstAccountOf(user_accounts, u),
            offset_days |-> offset_days, channel |-> channel, is_active |-> TRUE]}
    /\ uuid_seq' = uuid_seq + 1
    /\ UNCHANGED <<now, invoices, dunning_history, drun, dunning_log>>
    /\ UNCHANGED dunFrame

\* the pair a run is at, and the run's record after the pair
CurrentInvoice(r) == drun[r].invoices[drun[r].i]
CurrentRule(r) == drun[r].rules[drun[r].j]
AfterPair(r) ==
    IF drun[r].j < Len(drun[r].rules)
    THEN [drun[r] EXCEPT !.pc = "check", !.j = @ + 1]
    ELSE IF drun[r].i < Len(drun[r].invoices)
    THEN [drun[r] EXCEPT !.pc = "check", !.i = @ + 1, !.j = 1]
    ELSE [drun[r] EXCEPT !.pc = "done", !.result = "finished"]
\* line 101: any exception inside the loops ends the run
Aborted(r) == [drun[r] EXCEPT !.pc = "done", !.result = "aborted"]

LogEntry(r, outcome) ==
    [run |-> r, today |-> drun[r].today,
     invoice_id |-> CurrentInvoice(r).id, dunning_rule_id |-> CurrentRule(r).id,
     days_overdue |-> DaysOverdue(drun[r].today, CurrentInvoice(r)),
     offset_days |-> CurrentRule(r).offset_days, outcome |-> outcome]

\* process_dunning_for_all_tenants 39-70: connect, read the clock, fetch every
\* dunning rule and the overdue invoices; without rules or without overdue
\* invoices the run is over.
DunningStart(r) ==
    /\ drun[r].pc = "start"
    /\ \A o \in DunningRuns : o < r => drun[o].pc # "start"
    /\ \E db_error \in BOOLEAN :
         IF db_error
         THEN drun' = [drun EXCEPT ![r] = [@ EXCEPT !.pc = "done", !.result = "aborted"]]
         ELSE \E rules \in Orderings(dunning_rules),
                 overdue_invoices \in Orderings(OverdueInvoices(invoices, now)) :
                drun' = [drun EXCEPT ![r] =
                    IF rules = <<>> \/ overdue_invoices = <<>>
                    THEN [@ EXCEPT !.pc = "done", !.result = "finished", !.today = now]
                    ELSE [@ EXCEPT !.pc = "check", !.rules = rules,
                                   !.invoices = overdue_invoices, !.today = now,
                                   !.solo = ~\E o \in DunningRuns :
                                                o # r /\ DunningRunning(o)]]
    /\ UNCHANGED <<now, uuid_seq, dunning_rules, invoices, dunning_history, dunning_log>>
    /\ UNCHANGED dunFrame

\* lines 74-89 and 98-99 for the next (invoice, rule) pair: the offset must equal
\* days_overdue, no dunning_history row may exist, and the channel must be
\* 'EMAIL'; otherwise nothing is sent for the pair.
DunningCheck(r) ==
    /\ drun[r].pc = "check"
    /\ UNCHANGED <<now, uuid_seq, dunning_rules, invoices, dunning_history>>
    /\ UNCHANGED dunFrame
    /\ IF CurrentRule(r).offset_days # DaysOverdue(drun[r].today, CurrentInvoice(r))
       THEN /\ drun' = [drun EXCEPT ![r] = AfterPair(r)]
            /\ dunning_log' = dunning_log \cup {LogEntry(r, "no_match")}
       ELSE \E db_error \in BOOLEAN :
              IF db_error
              THEN /\ drun' = [drun EXCEPT ![r] = Aborted(r)]
                   /\ dunning_log' = dunning_log \cup {LogEntry(r, "lookup_failed")}
              ELSE IF HistoryExists(dunning_history, CurrentInvoice(r).id,
                                    CurrentRule(r).id)
              THEN /\ drun' = [drun EXCEPT ![r] = AfterPair(r)]
                   /\ dunning_log' = dunning_log \cup {LogEntry(r, "already_sent")}
              ELSE IF CurrentRule(r).channel # "EMAIL"
              THEN /\ drun' = [drun EXCEPT ![r] = AfterPair(r)]
                   /\ dunning_log' = dunning_log \cup {LogEntry(r, "not_dispatched")}
              ELSE /\ drun' = [drun EXCEPT ![r].pc = "send"]
                   /\ UNCHANGED dunning_log

\* lines 91-92: if success: the history row is inserted next; otherwise the
\* pair is over
LoggedRegardless(r, success) == [drun[r] EXCEPT !.pc = "log"]
AfterSend(r, success) ==
    IF success THEN [drun[r] EXCEPT !.pc = "log"] ELSE AfterPair(r)

\* lines 90-91 with send_reminder 8-23: True when the e-mail went out, False
\* when db.notify.email raised.
DunningSend(r) ==
    /\ drun[r].pc = "send"
    /\ \E success \in BOOLEAN :
         /\ drun' = [drun EXCEPT ![r] = AfterSend(r, success)]
         /\ dunning_log' = dunning_log \cup
               {LogEntry(r, IF success THEN "sent_unlogged" ELSE "send_failed")}
    /\ UNCHANGED <<now, uuid_seq, dunning_rules, invoices, dunning_history>>
    /\ UNCHANGED dunFrame

\* lines 92-97: INSERT INTO dunning_history after a successful send; when the
\* insert raises, the run is over and no row records the send.
DunningLog(r) ==
    /\ drun[r].pc = "log"
    /\ UNCHANGED <<now, uuid_seq, dunning_rules, invoices>>
    /\ UNCHANGED dunFrame
    /\ LET row == [invoice_id |-> CurrentInvoice(r).id,
                   dunning_rule_id |-> CurrentRule(r).id, sent_at |-> drun[r].today]
       IN  \E db_error \in BOOLEAN :
             IF db_error \/ HistoryInsertConflicts(dunning_history, row)
             THEN /\ drun' = [drun EXCEPT ![r] = Aborted(r)]
                  /\ UNCHANGED <<dunning_history, dunning_log>>
             ELSE /\ dunning_history' = dunning_history \cup {row}
                  /\ dunning_log' = (dunning_log \ {LogEntry(r, "sent_unlogged")})
                                        \cup {LogEntry(r, "sent_logged")}
                  /\ drun' = [drun EXCEPT ![r] = AfterPair(r)]

\* The scheduler starts a run of the engine when the run before it is over.
ScheduledDunning(r) == (\A o \in DunningRuns : ~DunningRunning(o)) /\ DunningStart(r)

DunningNext ==
    \/ NextDay
    \/ \E u \in DunningUsers, offset_days \in RuleOffsets, channel \in ApiChannels,
          is_active \in BOOLEAN :
          CreateDunningRule(u, offset_days, channel, is_active)
    \/ \E u \in RepositoryUsers, offset_days \in RuleOffsets, channel \in DunningChannel :
          RepositoryCreateDunningRule(u, offset_days, channel)
    \/ \E r \in DunningRuns :
          \/ ScheduledDunning(r)
          \/ DunningCheck(r)
          \/ DunningSend(r)
          \/ DunningLog(r)

SpecDunning == DunningInit /\ [][DunningNext]_vars

\* the entries of two runs for one pair
SamePair(e1, e2) ==
    e1.invoice_id = e2.invoice_id /\ e1.dunning_rule_id = e2.dunning_rule_id

(***************************************************************************)
(* C4: two runs of the engine in succession, with the same invoices and    *)
(* rules on the same calendar day, send at most one notification for each  *)
(* (invoice_id, dunning_rule_id) pair in total.                            *)
(***************************************************************************)
C4_AtMostOneNotification ==
    \A e1, e2 \in dunning_log :
        (SamePair(e1, e2) /\ e1.today = e2.today
         /\ e1.outcome \in Notified /\ e2.outcome \in Notified)
        => e1.run = e2.run

(***************************************************************************)
(* C6: a reminder is dispatched for a pair only on a run where days_overdue*)
(* equals the rule's offset_days, and on such a run it is dispatched for   *)
(* every pair that has no dunning_history row (a rule with offset_days = 5 *)
(* fires at days_overdue = 5 and not at 4 or 6).                           *)
(***************************************************************************)
C6_FiresExactlyOnOffsetDay ==
    \A e \in dunning_log :
        /\ e.outcome \in Dispatched => e.days_overdue = e.offset_days
        /\ (e.days_overdue = e.offset_days
            /\ e.outcome \notin {"already_sent", "lookup_failed"})
           => e.outcome \in Dispatched

\* run r has evaluated every (invoice, rule) pair it fetched
AllPairsEvaluated(r) ==
    drun[r].i = Len(drun[r].invoices) /\ drun[r].j = Len(drun[r].rules)

(***************************************************************************)
(* C13: a failure while handling one (invoice, rule) pair (history lookup, *)
(* dispatch or history insert) does not keep the run from evaluating the   *)
(* remaining pairs: a run that is over has evaluated every pair it fetched.*)
(***************************************************************************)
C13_FailureDoesNotBlockPairs ==
    \A r \in DunningRuns :
        (drun[r].pc = "done" /\ drun[r].rules # <<>>) => AllPairsEvaluated(r)

(***************************************************************************)
(* C14: the engine never dispatches a reminder for an invoice whose status *)
(* is paid or cancelled, nor for an invoice whose due_date has not passed  *)
(* on the day of the run.                                                  *)
(***************************************************************************)
C14_NoReminderForPaidOrNotDue ==
    \A e \in dunning_log : \A i \in invoices :
        (e.outcome \in Dispatched /\ i.id = e.invoice_id)
        => i.status \notin {"paid", "cancelled"} /\ i.due_date < e.today

(***************************************************************************)
(* C23: the engine inserts the dunning_history row of an (invoice, rule)   *)
(* pair only after the dispatch for that pair has succeeded; when the      *)
(* dispatch fails no row is inserted, so that the pair is still eligible   *)
(* on a later run of the same day.                                         *)
(***************************************************************************)
C23_HistoryOnlyAfterDispatch ==
    [][/\ \A h \in dunning_history' \ dunning_history :
             \E e \in dunning_log :
                /\ e.outcome = "sent_unlogged"
                /\ e.invoice_id = h.invoice_id
                /\ e.dunning_rule_id = h.dunning_rule_id
                /\ drun[e.run].pc = "log"
       /\ \A e \in dunning_log' :
             (/\ e.outcome = "send_failed"
              /\ ~\E s \in dunning_log' : SamePair(s, e) /\ s.outcome \in Notified)
             => ~HistoryExists(dunning_history', e.invoice_id, e.dunning_rule_id)]_vars

\* a pair whose dispatch failed on one run is sent and logged by a later run
\* of the same day
C23_RetriedTheSameDay ==
    \E e1, e2 \in dunning_log :
        /\ SamePair(e1, e2) /\ e1.today = e2.today /\ e1.run < e2.run
        /\ e1.outcome = "send_failed" /\ e2.outcome = "sent_logged"
        /\ HistoryExists(dunning_history, e2.invoice_id, e2.dunning_rule_id)

(***************************************************************************)
(* C24: dunning rules are tenant-scoped in matching: a reminder is         *)
(* dispatched for an (invoice, rule) pair only if the rule belongs to the  *)
(* account of the invoice.                                                 *)
(***************************************************************************)
C24_RuleAndInvoiceOfOneAccount ==
    \A e \in dunning_log : \A i \in invoices : \A rule \in dunning_rules :
        (e.outcome \in Dispatched /\ i.id = e.invoice_id /\ rule.id = e.dunning_rule_id)
        => rule.account_id = i.account_id

(***************************************************************************)
(* C25: a dunning rule with a negative offset_days = -k (k > 0) can be     *)
(* created and causes a reminder to be dispatched k days before the        *)
(* invoice's due date: a run that finishes k days before the due date of   *)
(* an unpaid invoice has dispatched the reminder of every such rule.       *)
(***************************************************************************)
C25_NegativeOffsetFires ==
    \A r \in DunningRuns : \A rule \in dunning_rules : \A i \in invoices :
        (/\ drun[r].result = "finished"
         /\ rule.offset_days < 0 /\ rule.channel = "EMAIL"
         /\ i.status = UnpaidStatus
         /\ i.due_date - drun[r].today = -rule.offset_days)
        => \E e \in dunning_log :
              /\ e.run = r /\ e.invoice_id = i.id /\ e.dunning_rule_id = rule.id
              /\ e.outcome \in Dispatched \cup {"already_sent"}

(***************************************************************************)
(* C26: a dunning rule whose is_active flag is false never causes the      *)
(* engine to dispatch a reminder.                                          *)
(***************************************************************************)
C26_InactiveRuleSilent ==
    \A e \in dunning_log : \A rule \in dunning_rules :
        (e.outcome \in Dispatched /\ rule.id = e.dunning_rule_id) => rule.is_active

\* run_dunning_job (scheduler 8-22) adds a run of the engine as a background
\* task on every call: nothing keeps a run from starting while another one
\* is still at work.
OverlapNext ==
    \/ NextDay
    \/ \E u \in RepositoryUsers, offset_days \in RuleOffsets, channel \in ApiChannels,
          is_active \in BOOLEAN :
          CreateDunningRule(u, offset_days, channel, is_active)
    \/ \E r \in DunningRuns :
          \/ DunningStart(r)
          \/ DunningCheck(r)
          \/ DunningSend(r)
          \/ DunningLog(r)

SpecDunningOverlap == DunningInit /\ [][OverlapNext]_vars

(***************************************************************************)
(* C28: if two runs of the engine overlap on the same day, at most one     *)
(* notification is sent and at most one dunning_history row is written for *)
(* each (invoice_id, dunning_rule_id) pair.                                *)
(***************************************************************************)
C28_OverlapNotifiesOnce ==
    /\ \A e1, e2 \in dunning_log :
          (/\ SamePair(e1, e2) /\ e1.today = e2.today
           /\ e1.outcome \in Notified /\ e2.outcome \in Notified
           /\ (~drun[e1.run].solo \/ ~drun[e2.run].solo))
          => e1.run = e2.run
    /\ \A h1, h2 \in dunning_history :
          (h1.invoice_id = h2.invoice_id /\ h1.dunning_rule_id = h2.dunning_rule_id)
          => h1 = h2

(***************************************************************************)
(* Feature access (subscriptions/__init__.py, get_feature_access and       *)
(* _get_subscription_feature_access) for an account that has a             *)
(* subscription row, with UserSubscription.is_active of models.py.         *)
(***************************************************************************)
NumAccessReqs == 2       \* feature-access requests in one behaviour

AccessReqs == 1..NumAccessReqs
AccessUsers == {UserA, UserB}    \* the admin and the member of account 1
\* subscription.plan: not loaded, or the plan with this slug
NoPlan == "none"
PlanSlugs == {NoPlan, "free", "basic", "premium", "enterprise"}

\* UserSubscription.is_active
IsNotCanceled(subscription) == subscription.status # "canceled"
IsActive(subscription) == subscription.status \in {"trial", "active"}

\* UserSubscription.is_trial
IsTrial(subscription) == subscription.status = "trial"

\* _get_temporary_trial_access
TemporaryTrialAccess ==
    [has_access |-> TRUE, can_create_invoices |-> TRUE,
     can_use_custom_branding |-> TRUE, is_trial |-> TRUE]

\* _get_subscription_feature_access 1015-1085
SubscriptionFeatureAccess(subscription) ==
    LET has_premium_features ==
            IsTrial(subscription) \/ subscription.plan \in {"premium", "enterprise"}
    IN  IF ~IsActive(subscription)
        THEN [has_access |-> FALSE, can_create_invoices |-> FALSE,
              can_use_custom_branding |-> FALSE, is_trial |-> FALSE]
        ELSE IF subscription.plan = NoPlan
        THEN TemporaryTrialAccess
        ELSE [has_access |-> TRUE, can_create_invoices |-> TRUE,
              can_use_custom_branding |-> has_premium_features,
              is_trial |-> IsTrial(subscription)]

\* The row of account 1 as the lifecycle operations or the processor left it.
StoredSubscription(status, plan) ==
    [TrialSubscription(6, UserA, 1, TrialDays, Null) EXCEPT
        !.status = status, !.plan = plan,
        !.canceled_at = IF status = "canceled" THEN 0 ELSE Null]

AccessInit ==
    /\ accounts = OnboardedAccounts
    /\ user_accounts = OnboardedMemberships
    /\ uuid_seq = 6
    /\ clock = 3
    /\ treq = <<>>
    /\ insert_log = {}
    /\ stripe_seq = 0
    /\ now = 0
    /\ LifecycleUnused
    /\ DunningUnused
    /\ \E status \in SubscriptionStatuses, plan \in PlanSlugs :
          user_subscriptions = {StoredSubscription(status, plan)}
    /\ freq \in [AccessReqs ->
                   {[pc |-> "start", user_id |-> u, status |-> "none",
                     is_active |-> FALSE, response |-> TemporaryTrialAccess] :
                    u \in AccessUsers}]

\* get_feature_access 924-977 when repo.get_user_subscription() finds the row
GetFeatureAccess(r) ==
    /\ freq[r].pc = "start"
    /\ CurrentSubscription(freq[r].user_id).id # Null
    /\ LET subscription == CurrentSubscription(freq[r].user_id)
       IN  freq' = [freq EXCEPT ![r] =
                [@ EXCEPT !.pc = "done", !.status = subscription.status,
                          !.is_active = IsActive(subscription),
                          !.response = SubscriptionFeatureAccess(subscription)]]
    /\ UNCHANGED <<user_subscriptions, stripe_seq, now, insert_log>>
    /\ UNCHANGED <<tenantVars, lifeVars, dunVars>>

AccessNext == \E r \in AccessReqs : GetFeatureAccess(r)

SpecAccess == AccessInit /\ [][AccessNext]_vars

(***************************************************************************)
(* C17: for an existing subscription is_active is true exactly when the    *)
(* status is trial or active, and the feature-access operation answers     *)
(* has_access = false for every subscription whose status is past_due,     *)
(* canceled or expired.                                                    *)
(***************************************************************************)
C17_AccessFollowsStatus ==
    \A r \in AccessReqs :
        freq[r].pc = "done" =>
            /\ freq[r].is_active = (freq[r].status \in {"trial", "active"})
            /\ freq[r].status \in {"past_due", "canceled", "expired"}
               => ~freq[r].response.has_access

\* a request answered for a past_due subscription
C17_PastDueAnswered ==
    \E r \in AccessReqs :
        freq[r].pc = "done" /\ freq[r].status = "past_due"
        /\ ~freq[r].response.has_access

(***************************************************************************)
(* Fee calculator (fee_calculator.py, calculate_transaction_fees).  Money  *)
(* is counted in whole cents, the unrounded Decimal intermediates in       *)
(* thousandths of a cent, percentages in hundredths of a percent.          *)
(***************************************************************************)
MaxAmountCents == 10000  \* the largest payment_amount, 100.00

FeeReqs == {1}
\* the keys of PLAN_MARKUPS and two slugs that are not in the table
KnownPlans == {"free", "starter", "pro", "business", "enterprise"}
FeePlanSlugs == KnownPlans \cup {"basic", "nonesuch"}

StripePercentageFee == 290   \* STRIPE_PERCENTAGE_FEE = Decimal('0.029'), in 1/100 %
StripeFixedFee == 30000      \* STRIPE_FIXED_FEE = Decimal('0.30'), in 1/1000 cent

\* PLAN_MARKUPS, in hundredths of a percent
PlanMarkups ==
    [free |-> 100, starter |-> 80, pro |-> 50, business |-> 30, enterprise |-> 10]

\* PLAN_MARKUPS.get(plan_slug, PLAN_MARKUPS['free'])
MarkupPercentage(plan_slug) ==
    IF plan_slug \in KnownPlans THEN PlanMarkups[plan_slug] ELSE PlanMarkups["free"]

\* amount * percentage for an amount in cents: thousandths of a cent
PercentageOf(cents, percentage) == (cents * percentage) \div 10

\* x.quantize(Decimal('0.01'), rounding=ROUND_HALF_UP) for x >= 0 given as the
\* fraction num / den of a hundredth
RoundDown(num, den) == num \div den
RoundHalfUp(num, den) == (2 * num + den) \div (2 * den)

\* calculate_transaction_fees 18-59
CalculateTransactionFees(cents, plan_slug) ==
    LET stripe_total_fee == PercentageOf(cents, StripePercentageFee) + StripeFixedFee
        markup_percentage == MarkupPercentage(plan_slug)
        our_markup_amount == PercentageOf(cents, markup_percentage)
        total_fee == stripe_total_fee + our_markup_amount
    IN  [stripe_fee |-> RoundHalfUp(stripe_total_fee, 1000),
         our_markup_percentage |-> markup_percentage,
         our_markup_amount |-> RoundHalfUp(our_markup_amount, 1000),
         total_fee |-> RoundHalfUp(total_fee, 1000),
         effective_rate |-> IF cents > 0 THEN RoundHalfUp(10 * total_fee, cents) ELSE 0]

NoFees ==
    [stripe_fee |-> 0, our_markup_percentage |-> 0, our_markup_amount |-> 0,
     total_fee |-> 0, effective_rate |-> 0]

FeeInit ==
    /\ accounts = OnboardedAccounts
    /\ user_accounts = OnboardedMemberships
    /\ uuid_seq = 5
    /\ clock = 3
    /\ treq = <<>>
    /\ insert_log = {}
    /\ user_subscriptions = {}
    /\ stripe_seq = 0
    /\ now = 0
    /\ LifecycleUnused
    /\ DunningUnused
    /\ freq \in [FeeReqs ->
                   {[pc |-> "start", cents |-> c, plan_slug |-> p, fees |-> NoFees] :
                    c \in 0..MaxAmountCents, p \in FeePlanSlugs}]

\* a call of calculate_transaction_fees(cents / 100, plan_slug)
CallCalculateTransactionFees(r) ==
    /\ freq[r].pc = "start"
    /\ freq' = [freq EXCEPT ![r] =
          [@ EXCEPT !.pc = "done",
                    !.fees = CalculateTransactionFees(freq[r].cents, freq[r].plan_slug)]]
    /\ UNCHANGED <<user_subscriptions, stripe_seq, now, insert_log>>
    /\ UNCHANGED <<tenantVars, lifeVars, dunVars>>

FeeNext == \E r \in FeeReqs : CallCalculateTransactionFees(r)

SpecFees == FeeInit /\ [][FeeNext]_vars

\* r is num / den rounded half-up to a whole number
IsHalfUp(r, num, den) == 2 * den * r - den <= 2 * num /\ 2 * num < 2 * den * r + den

\* the table entry of the slug, the free tier's 1.0 % for a slug not in the table
TableEntry(plan_slug) ==
    CASE plan_slug = "free" -> 100
      [] plan_slug = "starter" -> 80
      [] plan_slug = "pro" -> 50
      [] plan_slug = "business" -> 30
      [] plan_slug = "enterprise" -> 10
      [] OTHER -> 100

\* the outputs the claim and the code agree on
FeesAsSpecified(c, p, f) ==
    /\ IsHalfUp(f.stripe_fee, 29 * c + 30000, 1000)
    /\ f.our_markup_percentage = TableEntry(p)
    /\ IsHalfUp(f.our_markup_amount, c * TableEntry(p), 10000)
    /\ IsHalfUp(f.total_fee, 290 * c + 300000 + c * TableEntry(p), 10000)
    /\ (c = 10000 /\ p = "free")
       => /\ f.stripe_fee = 320 /\ f.our_markup_amount = 100
          /\ f.total_fee = 420 /\ f.effective_rate = 420

(***************************************************************************)
(* C18 as the code has it: for every amount in whole cents and every plan  *)
(* slug the processor fee, the markup percentage, the markup amount and    *)
(* the total fee are as specified, and effective_rate is the unrounded     *)
(* total fee divided by the amount, times 100, rounded half-up; it is 0    *)
(* for the amount 0.                                                       *)
(***************************************************************************)
C18_RateFromUnroundedTotal ==
    \A r \in FeeReqs :
        freq[r].pc = "done" =>
            LET c == freq[r].cents
                p == freq[r].plan_slug
                f == freq[r].fees
            IN  /\ FeesAsSpecified(c, p, f)
                /\ c = 0 => f.effective_rate = 0
                /\ c > 0 => IsHalfUp(f.effective_rate,
                                     290 * c + 300000 + c * TableEntry(p), c)

\* the call with the amount 0.01, where the rounded and the unrounded total differ
C18_OneCentCalculated ==
    \E r \in FeeReqs :
        /\ freq[r].pc = "done" /\ freq[r].cents = 1 /\ freq[r].plan_slug = "free"
        /\ freq[r].fees.total_fee = 30 /\ freq[r].fees.effective_rate = 300390

(***************************************************************************)
(* C18 as stated: the fees are as specified and effective_rate is          *)
(* round_half_up(total_fee / amount * 100) for the total_fee that is       *)
(* returned, 0 for the amount 0.                                           *)
(***************************************************************************)
C18_RateFromReturnedTotal ==
    \A r \in FeeReqs :
        freq[r].pc = "done" =>
            LET c == freq[r].cents
                p == freq[r].plan_slug
                f == freq[r].fees
            IN  /\ FeesAsSpecified(c, p, f)
                /\ c = 0 => f.effective_rate = 0
                /\ c > 0 => IsHalfUp(f.effective_rate, 10000 * f.total_fee, c)

(***************************************************************************)
(* C30: for every non-negative amount in whole cents and every plan the    *)
(* rounded outputs are additive: total_fee equals stripe_fee plus          *)
(* our_markup_amount.                                                      *)
(***************************************************************************)
C30_RoundedFeesAdditive ==
    \A r \in FeeReqs :
        freq[r].pc = "done" =>
            freq[r].fees.total_fee =
                freq[r].fees.stripe_fee + freq[r].fees.our_markup_amount

====
